---- MODULE Spec2Model ----
(***************************************************************************)
(* State-machine model of examples/workflows/multi-vault-sync.py:          *)
(* the VaultManager class (configuration sync, lint runner, backups,       *)
(* report generator, status) and the argv dispatcher main().               *)
(***************************************************************************)
EXTENDS Integers, Sequences, FiniteSets, TLC

VARIABLES argv, cfgFile, config, master, vaultfs, pc, names, idx, results,
          calls, log, stdout, report, syncRet, exit_status

vars == <<argv, cfgFile, config, master, vaultfs, pc, names, idx, results,
          calls, log, stdout, report, syncRet, exit_status>>

(* ---------------------------- bounds ----------------------------------- *)

\* longest list of vault names given after `lint`
MaxArgs == 2
\* longest issuesFound / fixesApplied list in a mapping given to generate_report
MaxIssues == 1
\* most lines in the master obsidian-lint.toml
MaxLines == 2
\* most files in a rules/<profile> tree
MaxFiles == 1

(* ---------------------------- values ----------------------------------- *)

\* dict.get(key, default)
Get(d, k, default) == IF k \in DOMAIN d THEN d[k] ELSE default

\* paths are sequences of components; Path.home() is <<"home">>
Home == <<"home">>
ConfigFile == Home \o <<".config", "obsidian-lint", "multi-vault.json">>
PersonalVault == Home \o <<"PersonalVault">>
WorkVault == Home \o <<"WorkVault">>
MasterConfig == Home \o <<".config", "obsidian-lint">>
VaultPaths == {PersonalVault, WorkVault}
Profiles == {"personal", "work"}

\* the vault's .config/obsidian-lint directory and the files under it
VaultConfigDir(vault_path) == vault_path \o <<".config", "obsidian-lint">>
VaultToml(vault_path) == VaultConfigDir(vault_path) \o <<"obsidian-lint.toml">>

\* one entry of config["vaults"]: path and profile always, the flags optional
VaultEntry(path, profile, flags) ==
    [k \in {"path", "profile"} \cup DOMAIN flags |->
        IF k = "path" THEN path ELSE IF k = "profile" THEN profile ELSE flags[k]]

SyncSettings(profiles, rules, backups) ==
    [sync_profiles |-> profiles, sync_rules |-> rules,
     create_backups |-> backups, parallel_processing |-> TRUE]

\* the keys of config["vaults"], in the order the JSON file lists them
VaultOrder == <<"personal", "work">>

default_config ==
    [vaults |-> [n \in {"personal", "work"} |->
        IF n = "personal"
        THEN VaultEntry(PersonalVault, "personal",
                 [sync_rules |-> TRUE, auto_fix |-> TRUE, backup |-> TRUE])
        ELSE VaultEntry(WorkVault, "work",
                 [sync_rules |-> TRUE, auto_fix |-> FALSE, backup |-> TRUE])],
     master_config |-> MasterConfig,
     sync_settings |-> SyncSettings(TRUE, TRUE, TRUE)]

\* log(message): one entry appended to the log file (and printed)
LogEntry(level, message, arg) == <<level, message, arg>>

\* the configuration the manager loaded (config holds it once loaded)
Cfg == config[1]

\* lists of at most n items (the elements of issuesFound / fixesApplied)
Lists(n) == UNION {[1..k -> {"item"}] : k \in 0..n}

\* JSON objects the linter prints on success (its output contract: both lists)
LinterPayloads ==
    {[issuesFound |-> <<>>, fixesApplied |-> <<>>],
     [issuesFound |-> <<"item", "item">>, fixesApplied |-> <<"item">>]}

(* ------------------------- run_linting --------------------------------- *)

\* vault_names of run_linting: argv after the command, or every configured vault
VaultNames(args) == IF Len(args) > 2 THEN SubSeq(args, 3, Len(args)) ELSE VaultOrder

\* mutant: the default of a missing auto_fix flag taken as True
Subcommand_DefaultFix(vault_config) ==
    IF ~Get(vault_config, "auto_fix", TRUE) THEN "lint" ELSE "fix"

\* "lint" if not vault_config.get("auto_fix", False) else "fix"
Subcommand(vault_config) ==
    IF ~Get(vault_config, "auto_fix", FALSE) THEN "lint" ELSE "fix"

\* the argument vector handed to subprocess.run
Cmd(vault_config) ==
    <<"obsidian-lint", Subcommand(vault_config), "--config",
      VaultToml(vault_config["path"]), "--json", vault_config["path"]>>

\* mutant: the global create_backups setting is not consulted
NeedBackup_VaultFlagOnly(vault_config) == Get(vault_config, "backup", FALSE)

\* vault_config.get("backup", False) and sync_settings["create_backups"]
NeedBackup(vault_config) ==
    Get(vault_config, "backup", FALSE) /\ Cfg.sync_settings.create_backups

\* the record a backup leaves (ok: whether copytree completed)
BackupCall(name, vault_config, ok) ==
    [op |-> "backup", vault |-> name, src |-> vault_config["path"], ok |-> ok]

\* the record a linter invocation leaves, with what the subprocess did
RunCall(name, vault_config, outcome) ==
    [op |-> "run", vault |-> name, cmd |-> Cmd(vault_config), outcome |-> outcome]

\* the log after "Running linting" and, when a backup is due, "Creating backup"
LogStarted(name, vault_config) ==
    log \o <<LogEntry("INFO", "Running linting for vault", <<name>>)>>
        \o (IF NeedBackup(vault_config)
            THEN <<LogEntry("INFO", "Creating backup", <<name>>)>> ELSE <<>>)

\* the calls after the vault's backup (when one is due) completed
CallsBackedUp(name, vault_config) ==
    calls \o (IF NeedBackup(vault_config)
              THEN <<BackupCall(name, vault_config, TRUE)>> ELSE <<>>)

\* results[vault_name] = value
Store(res, name, value) ==
    [n \in DOMAIN res \cup {name} |-> IF n = name THEN value ELSE res[n]]

\* {"error": str(e)}
ErrorRecord == [error |-> "CalledProcessError"]

InLoop == pc = "run_linting" /\ idx <= Len(names)
Known == names[idx] \in DOMAIN Cfg.vaults
Present == vaultfs[Cfg.vaults[names[idx]]["path"]].exists

\* mutant: an unknown name is given an error entry instead of being skipped
LintUnknown_Recorded ==
    /\ InLoop /\ ~Known
    /\ log' = Append(log, LogEntry("WARNING", "Unknown vault", <<names[idx]>>))
    /\ results' = Store(results, names[idx], ErrorRecord)
    /\ idx' = idx + 1
    /\ UNCHANGED <<argv, cfgFile, config, master, vaultfs, pc, names,
                   calls, stdout, report, syncRet, exit_status>>

\* the name is not in config["vaults"]: warn and continue
LintUnknown ==
    /\ InLoop /\ ~Known
    /\ log' = Append(log, LogEntry("WARNING", "Unknown vault", <<names[idx]>>))
    /\ idx' = idx + 1
    /\ UNCHANGED <<argv, cfgFile, config, master, vaultfs, pc, names, results,
                   calls, stdout, report, syncRet, exit_status>>

\* the vault's directory does not exist: warn and continue
LintNotFound ==
    /\ InLoop /\ Known /\ ~Present
    /\ log' = Append(log, LogEntry("WARNING", "Vault not found",
                                   Cfg.vaults[names[idx]]["path"]))
    /\ idx' = idx + 1
    /\ UNCHANGED <<argv, cfgFile, config, master, vaultfs, pc, names, results,
                   calls, stdout, report, syncRet, exit_status>>

\* create_backup raises (copytree fails): nothing catches it
LintBackupFails ==
    /\ InLoop /\ Known /\ Present
    /\ LET name == names[idx]
           vc == Cfg.vaults[name]
       IN /\ NeedBackup(vc)
          /\ log' = LogStarted(name, vc)
          /\ calls' = Append(calls, BackupCall(name, vc, FALSE))
    /\ pc' = "raised"
    /\ UNCHANGED <<argv, cfgFile, config, master, vaultfs, names, idx, results,
                   stdout, report, syncRet, exit_status>>

\* the linter exits 0 and prints a JSON object
LintSuccess ==
    /\ InLoop /\ Known /\ Present
    /\ LET name == names[idx]
           vc == Cfg.vaults[name]
       IN \E lint_result \in LinterPayloads :
          /\ calls' = Append(CallsBackedUp(name, vc), RunCall(name, vc, "ok"))
          /\ results' = Store(results, name, lint_result)
          /\ log' = Append(LogStarted(name, vc),
                 LogEntry("INFO", "Vault issues fixes",
                     <<name, Len(Get(lint_result, "issuesFound", <<>>)),
                       Len(Get(lint_result, "fixesApplied", <<>>))>>))
    /\ idx' = idx + 1
    /\ UNCHANGED <<argv, cfgFile, config, master, vaultfs, pc, names,
                   stdout, report, syncRet, exit_status>>

\* the error record stored by the except clause
AfterCalledProcessError(res, name) == Store(res, name, ErrorRecord)

\* mutant: no except clause, the CalledProcessError leaves run_linting
LintCalledProcessError_Propagates ==
    /\ InLoop /\ Known /\ Present
    /\ LET name == names[idx]
           vc == Cfg.vaults[name]
       IN /\ calls' = Append(CallsBackedUp(name, vc), RunCall(name, vc, "nonzero"))
          /\ log' = LogStarted(name, vc)
    /\ pc' = "raised"
    /\ UNCHANGED <<argv, cfgFile, config, master, vaultfs, names, idx, results,
                   stdout, report, syncRet, exit_status>>

\* the linter exits non-zero: check=True raises CalledProcessError, caught
LintCalledProcessError ==
    /\ InLoop /\ Known /\ Present
    /\ LET name == names[idx]
           vc == Cfg.vaults[name]
       IN /\ calls' = Append(CallsBackedUp(name, vc), RunCall(name, vc, "nonzero"))
          /\ results' = AfterCalledProcessError(results, name)
          /\ log' = Append(LogStarted(name, vc),
                 LogEntry("ERROR", "Linting failed for vault", <<name>>))
    /\ idx' = idx + 1
    /\ UNCHANGED <<argv, cfgFile, config, master, vaultfs, pc, names,
                   stdout, report, syncRet, exit_status>>

\* the linter exits 0 and its stdout is not JSON: json.loads raises
\* JSONDecodeError, which `except subprocess.CalledProcessError` does not catch
LintBadJson ==
    /\ InLoop /\ Known /\ Present
    /\ LET name == names[idx]
           vc == Cfg.vaults[name]
       IN /\ calls' = Append(CallsBackedUp(name, vc), RunCall(name, vc, "unparsable"))
          /\ log' = LogStarted(name, vc)
    /\ pc' = "raised"
    /\ UNCHANGED <<argv, cfgFile, config, master, vaultfs, names, idx, results,
                   stdout, report, syncRet, exit_status>>

\* the loop is over: return results
LintReturn ==
    /\ pc = "run_linting" /\ idx > Len(names)
    /\ pc' = "lint_returned"
    /\ UNCHANGED <<argv, cfgFile, config, master, vaultfs, names, idx, results,
                   calls, log, stdout, report, syncRet, exit_status>>

(* ----------------------- sync_configurations --------------------------- *)

\* a config text is a sequence of pieces <<key, value>>; these are the two
\* literals sync_main_config looks for, and any other piece of text
VaultRootPlaceholder == <<"vault_root", <<"path", "to", "vault">>>>
ActiveDefault == <<"active", <<"default">>>>
OtherText == <<"other", <<>>>>

\* str.replace(old, new): every occurrence
Replace(text, old, new) == [i \in DOMAIN text |-> IF text[i] = old THEN new ELSE text[i]]

\* the two replacements of sync_main_config, in the order the code makes them
Render(text, vault_config) ==
    Replace(Replace(text, VaultRootPlaceholder, <<"vault_root", vault_config["path"]>>),
            ActiveDefault, <<"active", <<vault_config["profile"]>>>>)

\* vault_config_dir.mkdir(parents=True, exist_ok=True)
Mkdir(v) == [v EXCEPT !.cfgdir = TRUE]

\* writes the rendered master text over the vault's obsidian-lint.toml
sync_main_config(m, v, vault_config) ==
    IF Len(m.toml) = 1
    THEN [v EXCEPT !.toml = <<Render(m.toml[1], vault_config)>>]
    ELSE v

\* mutant: copytree over the existing tree without the rmtree (a merge)
sync_rules_merge(m, v, profile) ==
    IF profile \in DOMAIN m.rules
    THEN LET new == m.rules[profile]
             old == IF profile \in DOMAIN v.rules THEN v.rules[profile] ELSE new
         IN [v EXCEPT !.rules = Store(v.rules, profile,
                [f \in DOMAIN old \cup DOMAIN new |->
                    IF f \in DOMAIN new THEN new[f] ELSE old[f]])]
    ELSE v

\* rmtree of the vault's rules/<profile>, then copytree of the master's
sync_rules(m, v, profile) ==
    IF profile \in DOMAIN m.rules
    THEN [v EXCEPT !.rules = Store(v.rules, profile, m.rules[profile])]
    ELSE v

\* one iteration of the loop over config["vaults"] on an existing vault
SyncedVault(m, v, vault_config) ==
    LET v1 == Mkdir(v)
        v2 == IF Cfg.sync_settings.sync_profiles
              THEN sync_main_config(m, v1, vault_config) ELSE v1
    IN IF Cfg.sync_settings.sync_rules /\ Get(vault_config, "sync_rules", TRUE)
       THEN sync_rules(m, v2, vault_config["profile"]) ELSE v2

\* mutant: the error is logged but the early return is missing
SyncMasterMissing_Continues ==
    /\ pc = "sync_configurations" /\ ~master.exists
    /\ log' = log \o <<LogEntry("INFO", "Starting configuration synchronization", <<>>),
                       LogEntry("ERROR", "Master configuration not found",
                                Cfg.master_config)>>
    /\ idx' = 1
    /\ pc' = "sync_loop"
    /\ UNCHANGED <<argv, cfgFile, config, master, vaultfs, names, results,
                   calls, stdout, report, syncRet, exit_status>>

\* the master configuration directory is missing: log the error, return False
SyncMasterMissing ==
    /\ pc = "sync_configurations" /\ ~master.exists
    /\ log' = log \o <<LogEntry("INFO", "Starting configuration synchronization", <<>>),
                       LogEntry("ERROR", "Master configuration not found",
                                Cfg.master_config)>>
    /\ syncRet' = <<FALSE>>
    /\ pc' = "sync_returned"
    /\ UNCHANGED <<argv, cfgFile, config, master, vaultfs, names, idx, results,
                   calls, stdout, report, exit_status>>

\* the master configuration directory exists: enter the loop
SyncBegin ==
    /\ pc = "sync_configurations" /\ master.exists
    /\ log' = Append(log, LogEntry("INFO", "Starting configuration synchronization", <<>>))
    /\ idx' = 1
    /\ pc' = "sync_loop"
    /\ UNCHANGED <<argv, cfgFile, config, master, vaultfs, names, results,
                   calls, stdout, report, syncRet, exit_status>>

\* the vault's directory does not exist: warn and continue
SyncVaultNotFound ==
    /\ pc = "sync_loop" /\ idx <= Len(VaultOrder)
    /\ LET vc == Cfg.vaults[VaultOrder[idx]]
       IN /\ ~vaultfs[vc["path"]].exists
          /\ log' = Append(log, LogEntry("WARNING", "Vault not found", vc["path"]))
    /\ idx' = idx + 1
    /\ UNCHANGED <<argv, cfgFile, config, master, vaultfs, pc, names, results,
                   calls, stdout, report, syncRet, exit_status>>

\* the vault's directory exists: mkdir, sync_main_config, sync_rules
SyncVault ==
    /\ pc = "sync_loop" /\ idx <= Len(VaultOrder)
    /\ LET vc == Cfg.vaults[VaultOrder[idx]]
           p == vc["path"]
       IN /\ vaultfs[p].exists
          /\ log' = Append(log, LogEntry("INFO", "Syncing configuration for vault",
                                         <<VaultOrder[idx]>>))
          /\ vaultfs' = [vaultfs EXCEPT ![p] = SyncedVault(master, vaultfs[p], vc)]
    /\ idx' = idx + 1
    /\ UNCHANGED <<argv, cfgFile, config, master, pc, names, results,
                   calls, stdout, report, syncRet, exit_status>>

\* the loop is over: log completion, return True
SyncDone ==
    /\ pc = "sync_loop" /\ idx > Len(VaultOrder)
    /\ log' = Append(log, LogEntry("INFO", "Configuration synchronization completed", <<>>))
    /\ syncRet' = <<TRUE>>
    /\ pc' = "sync_returned"
    /\ UNCHANGED <<argv, cfgFile, config, master, vaultfs, names, idx, results,
                   calls, stdout, report, exit_status>>

(* -------------------------- generate_report ---------------------------- *)

ReportFile == Home \o <<".local", "share", "obsidian-lint", "reports",
                        "multi-vault-report.json">>

\* mutant: the error key is not looked at
Succeeded_Always(r) == TRUE

\* "error" not in r
Succeeded(r) == "error" \notin DOMAIN r

\* sum(len(r.get(field, [])) for r in results.values() if "error" not in r)
RECURSIVE SumLen(_, _, _)
SumLen(res, keys, field) ==
    IF keys = {} THEN 0
    ELSE LET n == CHOOSE x \in keys : TRUE
         IN (IF Succeeded(res[n]) THEN Len(Get(res[n], field, <<>>)) ELSE 0)
            + SumLen(res, keys \ {n}, field)

\* report["summary"]
Summary(res) ==
    [total_vaults |-> Cardinality(DOMAIN res),
     successful |-> Cardinality({n \in DOMAIN res : Succeeded(res[n])}),
     failed |-> Cardinality({n \in DOMAIN res : ~Succeeded(res[n])}),
     total_issues |-> SumLen(res, DOMAIN res, "issuesFound"),
     total_fixes |-> SumLen(res, DOMAIN res, "fixesApplied")]

\* builds the report, writes the report file, logs its path
GenerateReport ==
    /\ pc = "lint_returned"
    /\ report' = <<[vaults |-> results, summary |-> Summary(results)]>>
    /\ log' = Append(log, LogEntry("INFO", "Report generated", ReportFile))
    /\ pc' = "report_generated"
    /\ UNCHANGED <<argv, cfgFile, config, master, vaultfs, names, idx, results,
                   calls, stdout, syncRet, exit_status>>

(* ------------------------------- main ---------------------------------- *)

Script == "multi-vault-sync.py"

\* the status the interpreter exits with when main returns normally
ExitOk == <<0>>
\* sys.exit(1), and the interpreter's status for an uncaught exception
ExitFailure == <<1>>

\* len(sys.argv) < 2: usage, sys.exit(1)
MainUsage ==
    /\ pc = "main" /\ Len(argv) < 2
    /\ stdout' = Append(stdout, <<"Usage", <<>>>>)
    /\ exit_status' = ExitFailure
    /\ pc' = "exited"
    /\ UNCHANGED <<argv, cfgFile, config, master, vaultfs, names, idx, results,
                   calls, log, report, syncRet>>

\* load_config: the file is missing, create_default_config writes it
LoadConfigCreate ==
    /\ pc = "main" /\ Len(argv) >= 2 /\ cfgFile.state = "absent"
    /\ cfgFile' = [state |-> "valid", content |-> <<default_config>>]
    /\ stdout' = Append(stdout, <<"Created default configuration at", ConfigFile>>)
    /\ config' = <<default_config>>
    /\ pc' = "dispatch"
    /\ UNCHANGED <<argv, master, vaultfs, names, idx, results,
                   calls, log, report, syncRet, exit_status>>

\* load_config: the file holds a configuration
LoadConfigRead ==
    /\ pc = "main" /\ Len(argv) >= 2 /\ cfgFile.state = "valid"
    /\ config' = cfgFile.content
    /\ pc' = "dispatch"
    /\ UNCHANGED <<argv, cfgFile, master, vaultfs, names, idx, results,
                   calls, log, stdout, report, syncRet, exit_status>>

\* load_config: json.load raises on a malformed file; nothing catches it
LoadConfigMalformed ==
    /\ pc = "main" /\ Len(argv) >= 2 /\ cfgFile.state = "malformed"
    /\ pc' = "raised"
    /\ UNCHANGED <<argv, cfgFile, config, master, vaultfs, names, idx, results,
                   calls, log, stdout, report, syncRet, exit_status>>

\* command == "sync"
MainSync ==
    /\ pc = "dispatch" /\ argv[2] = "sync"
    /\ pc' = "sync_configurations"
    /\ UNCHANGED <<argv, cfgFile, config, master, vaultfs, names, idx, results,
                   calls, log, stdout, report, syncRet, exit_status>>

\* mutant: the result of sync_configurations decides the exit status
MainSyncDone_ExitOnFailure ==
    /\ pc = "sync_returned"
    /\ exit_status' = IF syncRet = <<TRUE>> THEN ExitOk ELSE ExitFailure
    /\ pc' = "exited"
    /\ UNCHANGED <<argv, cfgFile, config, master, vaultfs, names, idx, results,
                   calls, log, stdout, report, syncRet>>

\* sync_configurations returned (its result is dropped): main returns
MainSyncDone ==
    /\ pc = "sync_returned"
    /\ exit_status' = ExitOk
    /\ pc' = "exited"
    /\ UNCHANGED <<argv, cfgFile, config, master, vaultfs, names, idx, results,
                   calls, log, stdout, report, syncRet>>

\* command == "lint": call run_linting
MainLint ==
    /\ pc = "dispatch" /\ argv[2] = "lint"
    /\ names' = VaultNames(argv)
    /\ idx' = 1
    /\ pc' = "run_linting"
    /\ UNCHANGED <<argv, cfgFile, config, master, vaultfs, results,
                   calls, log, stdout, report, syncRet, exit_status>>

\* the report is written: print its path, main returns
MainLintDone ==
    /\ pc = "report_generated"
    /\ stdout' = Append(stdout, <<"Report generated", ReportFile>>)
    /\ exit_status' = ExitOk
    /\ pc' = "exited"
    /\ UNCHANGED <<argv, cfgFile, config, master, vaultfs, names, idx, results,
                   calls, log, report, syncRet>>

\* one vault's lines of status()
StatusLine(name) ==
    LET vc == Cfg.vaults[name]
        v == vaultfs[vc["path"]]
    IN <<"Vault", <<name, IF v.exists THEN "ok" ELSE "missing",
                    IF Len(v.toml) = 1 THEN "ok" ELSE "missing",
                    vc["profile"],
                    IF Get(vc, "auto_fix", FALSE) THEN "True" ELSE "False">>>>

\* command == "status"
MainStatus ==
    /\ pc = "dispatch" /\ argv[2] = "status"
    /\ stdout' = stdout \o <<<<"Multi-Vault Status", <<>>>>>>
                        \o [i \in 1..Len(VaultOrder) |-> StatusLine(VaultOrder[i])]
    /\ exit_status' = ExitOk
    /\ pc' = "exited"
    /\ UNCHANGED <<argv, cfgFile, config, master, vaultfs, names, idx, results,
                   calls, log, report, syncRet>>

\* command == "config"
MainConfig ==
    /\ pc = "dispatch" /\ argv[2] = "config"
    /\ stdout' = stdout \o <<<<"Configuration file", ConfigFile>>,
                             IF cfgFile.state # "absent"
                             THEN <<"Configuration exists", <<>>>>
                             ELSE <<"Configuration not found", <<>>>>>>
    /\ exit_status' = ExitOk
    /\ pc' = "exited"
    /\ UNCHANGED <<argv, cfgFile, config, master, vaultfs, names, idx, results,
                   calls, log, report, syncRet>>

\* any other command: sys.exit(1)
MainUnknown ==
    /\ pc = "dispatch" /\ argv[2] \notin {"sync", "lint", "status", "config"}
    /\ stdout' = Append(stdout, <<"Unknown command", <<argv[2]>>>>)
    /\ exit_status' = ExitFailure
    /\ pc' = "exited"
    /\ UNCHANGED <<argv, cfgFile, config, master, vaultfs, names, idx, results,
                   calls, log, report, syncRet>>

\* an exception nothing caught leaves main: traceback, exit status 1
MainUncaught ==
    /\ pc = "raised"
    /\ exit_status' = ExitFailure
    /\ pc' = "exited"
    /\ UNCHANGED <<argv, cfgFile, config, master, vaultfs, names, idx, results,
                   calls, log, stdout, report, syncRet>>

(* --------------------- initial states and specifications --------------- *)

\* names a user may type after `lint`: the configured vaults and an unknown one
RequestNames == {"personal", "work", "ghost"}
NameLists == UNION {[1..k -> RequestNames] : k \in 0..MaxArgs}

\* flag dictionaries: each key present with either value, or absent
FlagMaps(keys) == UNION {[D -> BOOLEAN] : D \in SUBSET keys}

ConfigOf(pflags, wpath, wprofile, wflags, settings) ==
    [vaults |-> [n \in {"personal", "work"} |->
        IF n = "personal" THEN VaultEntry(PersonalVault, "personal", pflags)
        ELSE VaultEntry(wpath, wprofile, wflags)],
     master_config |-> MasterConfig,
     sync_settings |-> settings]

\* configurations that vary what run_linting reads
LintConfigs ==
    {ConfigOf(pf, WorkVault, "work", wf, SyncSettings(TRUE, TRUE, b)) :
        pf \in FlagMaps({"auto_fix", "backup"}),
        wf \in FlagMaps({"auto_fix", "backup"}), b \in BOOLEAN}

\* configurations that vary what sync_configurations reads
SyncConfigs ==
    {ConfigOf(pf, wp, wprofile, [sync_rules |-> TRUE], SyncSettings(a, b, TRUE)) :
        pf \in FlagMaps({"sync_rules"}), wp \in VaultPaths, wprofile \in Profiles,
        a \in BOOLEAN, b \in BOOLEAN}

\* configuration files the whole program is started on
MainConfigs ==
    {ConfigOf([sync_rules |-> TRUE, auto_fix |-> TRUE, backup |-> TRUE],
              WorkVault, "work",
              [sync_rules |-> TRUE, auto_fix |-> FALSE, backup |-> bk],
              SyncSettings(TRUE, TRUE, cb)) : bk \in BOOLEAN, cb \in BOOLEAN}

Pieces == {VaultRootPlaceholder, ActiveDefault, OtherText}
Texts == UNION {[1..k -> Pieces] : k \in 0..MaxLines}
OptTexts == {<<>>} \cup {<<t>> : t \in Texts}
\* a config file left in a vault by an earlier sync and edited there
OldToml == <<<<"vault_root", <<"old">>>>, OtherText>>

\* a rules/<profile> tree: file number -> content
Trees == UNION {[D -> {"a", "b"}] : D \in SUBSET (1..MaxFiles)}
NoRules == [p \in {} |-> <<>>]
\* rules directories: a subset of the profiles, all holding the same tree
UniformRules == UNION {[D -> {t}] : D \in SUBSET Profiles, t \in Trees}
StaleRules == [p \in Profiles |-> [f \in 1..MaxFiles |-> "b"]]

NoMaster == [exists |-> FALSE, toml |-> <<>>, rules |-> NoRules]
Master(toml, rules) == [exists |-> TRUE, toml |-> toml, rules |-> rules]
Missing == [exists |-> FALSE, cfgdir |-> FALSE, toml |-> <<>>, rules |-> NoRules]
Fresh == [exists |-> TRUE, cfgdir |-> FALSE, toml |-> <<>>, rules |-> NoRules]
Configured(toml, rules) ==
    [exists |-> TRUE, cfgdir |-> TRUE, toml |-> toml, rules |-> rules]

NoResults == [n \in {} |-> ErrorRecord]

Idle ==
    /\ idx = 1 /\ results = NoResults /\ calls = <<>> /\ log = <<>>
    /\ stdout = <<>> /\ report = <<>> /\ syncRet = <<>> /\ exit_status = <<>>

\* process start: argv, the configuration file and the directories on disk
Init ==
    /\ argv \in {<<Script>>}
            \cup {<<Script, c>> : c \in {"sync", "lint", "status", "config", "bogus"}}
            \cup {<<Script, "lint">> \o a : a \in NameLists}
    /\ cfgFile \in {[state |-> "absent", content |-> <<>>],
                    [state |-> "malformed", content |-> <<>>]}
               \cup {[state |-> "valid", content |-> <<c>>] : c \in MainConfigs}
    /\ config = <<>>
    /\ master \in {NoMaster, Master(<<<<VaultRootPlaceholder, ActiveDefault>>>>,
                                    [p \in Profiles |-> [f \in 1..MaxFiles |-> "a"]])}
    /\ vaultfs \in [VaultPaths -> {Missing, Configured(<<OldToml>>, StaleRules)}]
    /\ pc = "main"
    /\ names = <<>>
    /\ Idle

Next ==
    \/ MainUsage \/ LoadConfigCreate \/ LoadConfigRead \/ LoadConfigMalformed
    \/ MainSync \/ MainSyncDone \/ MainLint \/ MainLintDone
    \/ MainStatus \/ MainConfig \/ MainUnknown \/ MainUncaught
    \/ SyncMasterMissing \/ SyncBegin \/ SyncVaultNotFound \/ SyncVault \/ SyncDone
    \/ LintUnknown \/ LintNotFound \/ LintBackupFails \/ LintSuccess
    \/ LintCalledProcessError \/ LintBadJson \/ LintReturn
    \/ GenerateReport

Spec == Init /\ [][Next]_vars

\* run_linting called on a constructed manager
InitLint ==
    /\ \E c \in LintConfigs :
          /\ cfgFile = [state |-> "valid", content |-> <<c>>]
          /\ config = <<c>>
    /\ argv \in {<<Script, "lint">> \o a : a \in NameLists}
    /\ names = VaultNames(argv)
    /\ master = NoMaster
    /\ vaultfs \in [VaultPaths -> {Missing, Fresh}]
    /\ pc = "run_linting"
    /\ Idle

NextLint ==
    \/ LintUnknown \/ LintNotFound \/ LintBackupFails \/ LintSuccess
    \/ LintCalledProcessError \/ LintBadJson \/ LintReturn

SpecLint == InitLint /\ [][NextLint]_vars

\* sync_configurations called on a constructed manager.  The two sync steps
\* touch different files, so the disk varies the config files with the rules
\* trees absent, or the rules trees with the config file fixed.
InitSync ==
    /\ \E c \in SyncConfigs :
          /\ cfgFile = [state |-> "valid", content |-> <<c>>]
          /\ config = <<c>>
    /\ argv = <<Script, "sync">>
    /\ names = <<>>
    /\ \/ /\ master \in {NoMaster} \cup {Master(t, NoRules) : t \in OptTexts}
          /\ vaultfs \in [VaultPaths -> {Missing, Fresh, Configured(<<OldToml>>, NoRules)}]
       \/ /\ Cfg.sync_settings.sync_profiles
          /\ master \in {Master(<<<<VaultRootPlaceholder, ActiveDefault>>>>, r) :
                             r \in UniformRules}
          /\ \E pv \in {Fresh} \cup {Configured(<<>>, r) : r \in UniformRules},
                wv \in {Missing, Fresh, Configured(<<>>, StaleRules)} :
                vaultfs = [p \in VaultPaths |-> IF p = PersonalVault THEN pv ELSE wv]
    /\ pc = "sync_configurations"
    /\ Idle

NextSync ==
    \/ SyncMasterMissing \/ SyncBegin \/ SyncVaultNotFound \/ SyncVault \/ SyncDone

SpecSync == InitSync /\ [][NextSync]_vars

\* mappings handed to generate_report: each entry any subset of the three
\* keys, the lists of any length up to MaxIssues
OptLists == {<<>>} \cup {<<l>> : l \in Lists(MaxIssues)}
ReportEntry(issues, fixes, err) ==
    [k \in (IF Len(issues) = 1 THEN {"issuesFound"} ELSE {})
           \cup (IF Len(fixes) = 1 THEN {"fixesApplied"} ELSE {})
           \cup (IF Len(err) = 1 THEN {"error"} ELSE {}) |->
        IF k = "issuesFound" THEN issues[1]
        ELSE IF k = "fixesApplied" THEN fixes[1] ELSE err[1]]
ReportEntries ==
    {ReportEntry(i, f, e) : i \in OptLists, f \in OptLists,
                            e \in {<<>>, <<"CalledProcessError">>}}

InitReport ==
    /\ cfgFile = [state |-> "valid", content |-> <<default_config>>]
    /\ config = <<default_config>>
    /\ argv = <<Script, "lint">>
    /\ names = VaultNames(argv)
    /\ master = NoMaster
    /\ vaultfs = [p \in VaultPaths |-> Fresh]
    /\ pc = "lint_returned"
    /\ idx = Len(names) + 1 /\ calls = <<>> /\ log = <<>>
    /\ stdout = <<>> /\ report = <<>> /\ syncRet = <<>> /\ exit_status = <<>>
    /\ results \in UNION {[D -> ReportEntries] : D \in SUBSET {"personal", "work"}}

NextReport == GenerateReport

SpecReport == InitReport /\ [][NextReport]_vars

(* ------------------------------ claims --------------------------------- *)

IsRun(c) == c.op = "run"
IsBackup(c) == c.op = "backup"
Commands == {"sync", "lint", "status", "config"}
OnlyError(r) == DOMAIN r = {"error"}
Ran(outcome) == \E i \in DOMAIN calls : IsRun(calls[i]) /\ calls[i].outcome = outcome

\* C1: a step of run_linting in which the linter exits non-zero stores an
\* error record {error: ...} for that vault and moves on to the next name of
\* the list: the loop is still running and nothing was raised.
C1_NonZeroExitRecorded ==
    [][(/\ pc = "run_linting"
        /\ Len(calls') > Len(calls)
        /\ IsRun(calls'[Len(calls')])
        /\ calls'[Len(calls')].outcome = "nonzero")
       => /\ names[idx] \in DOMAIN results'
          /\ OnlyError(results'[names[idx]])
          /\ \A n \in DOMAIN results : n # names[idx] => results'[n] = results[n]
          /\ pc' = "run_linting" /\ names' = names /\ idx' = idx + 1]_vars

\* C1 witness: after a non-zero exit on one vault a later, different vault
\* was linted and has its own entry.
C1_Witness ==
    \E i, j \in DOMAIN calls :
        /\ i < j /\ IsRun(calls[i]) /\ calls[i].outcome = "nonzero"
        /\ IsRun(calls[j]) /\ calls[j].outcome = "ok"
        /\ calls[i].vault # calls[j].vault
        /\ OnlyError(results[calls[i].vault])
        /\ ~OnlyError(results[calls[j].vault])

\* C2 (as claimed): whenever the linter exited 0 with output that is not
\* JSON, that vault has an error entry and run_linting was not aborted.
C2_UnparsableOutputRecorded ==
    \A i \in DOMAIN calls :
        (IsRun(calls[i]) /\ calls[i].outcome = "unparsable")
        => /\ calls[i].vault \in DOMAIN results
           /\ "error" \in DOMAIN results[calls[i].vault]
           /\ pc # "raised"

\* C3 (as claimed, for runs in which every backup completed): a finished run
\* of `lint` on a loaded configuration has written a report and printed its path.
C3_LintAlwaysReports ==
    (/\ pc = "exited" /\ Len(argv) >= 2 /\ argv[2] = "lint" /\ Len(config) = 1
     /\ \A i \in DOMAIN calls : IsBackup(calls[i]) => calls[i].ok)
    => /\ Len(report) = 1
       /\ \E k \in DOMAIN stdout : stdout[k] = <<"Report generated", ReportFile>>

\* the command was ended by an exception nothing catches
AbortedByException ==
    \/ cfgFile.state = "malformed"
    \/ /\ calls # <<>>
       /\ LET last == calls[Len(calls)]
          IN \/ IsBackup(last) /\ ~last.ok
             \/ IsRun(last) /\ last.outcome = "unparsable"

\* C4 (as claimed, for runs on a readable configuration in which all linter
\* output parsed): exit status 1 only for no command or an unknown command.
C4_ExitOneOnlyForBadCommand ==
    (exit_status = <<1>> /\ cfgFile.state # "malformed" /\ ~Ran("unparsable"))
    => (Len(argv) < 2 \/ argv[2] \notin Commands)

\* C4 (amended): the exit status is 1 exactly when no command is given, the
\* command is unknown, or an uncaught exception ended the command; every
\* other run of sync, lint, status and config exits 0, whatever sync
\* returned and whatever vaults were skipped or recorded as failed.
C4_ExitStatus ==
    pc = "exited"
    => /\ exit_status \in {<<0>>, <<1>>}
       /\ exit_status = <<1>>
          <=> (Len(argv) < 2 \/ argv[2] \notin Commands \/ AbortedByException)

\* C4 witness: sync with the master config missing exited 0.
C4_Witness ==
    /\ pc = "exited" /\ exit_status = <<0>>
    /\ argv = <<Script, "sync">> /\ syncRet = <<FALSE>>

\* what run_linting stores for a vault it linted
IsLintResult(r) == OnlyError(r) \/ r \in LinterPayloads
Warned(message, arg) == \E k \in DOMAIN log : log[k] = <<"WARNING", message, arg>>
DirExists(name) == vaultfs[Cfg.vaults[name]["path"]].exists

\* C5 (as claimed): when run_linting returns, every requested name that is
\* in the configuration has an entry (payload or error record); every
\* requested name that is not is no key of the mapping and has a WARNING.
C5_ConfiguredNamesHaveEntries ==
    pc = "lint_returned"
    => \A i \in DOMAIN names :
          IF names[i] \in DOMAIN Cfg.vaults
          THEN names[i] \in DOMAIN results /\ IsLintResult(results[names[i]])
          ELSE names[i] \notin DOMAIN results
               /\ Warned("Unknown vault", <<names[i]>>)

\* C5 (amended): the keys of the mapping are always requested, configured
\* vaults whose directory exists, each holding a payload or an error record;
\* when run_linting returns, every requested configured name whose directory
\* exists has an entry, every requested configured name whose directory is
\* missing has none and a "Vault not found" WARNING, and every requested
\* name that is not configured has none and an "Unknown vault" WARNING.
C5_EntriesForExistingVaults ==
    /\ \A n \in DOMAIN results :
          /\ n \in DOMAIN Cfg.vaults /\ DirExists(n)
          /\ \E i \in DOMAIN names : names[i] = n
          /\ IsLintResult(results[n])
    /\ pc = "lint_returned"
       => \A i \in DOMAIN names :
             IF names[i] \notin DOMAIN Cfg.vaults
             THEN Warned("Unknown vault", <<names[i]>>)
             ELSE IF DirExists(names[i])
                  THEN names[i] \in DOMAIN results
                  ELSE Warned("Vault not found", Cfg.vaults[names[i]]["path"])

\* C5 witness: run_linting returned on a list mixing an unknown name with a
\* configured vault that was linted.
C5_Witness ==
    /\ pc = "lint_returned"
    /\ \E i, j \in DOMAIN names :
          /\ names[i] \notin DOMAIN Cfg.vaults
          /\ names[j] \in DOMAIN results

\* C6: every linter invocation is `obsidian-lint <sub> --config
\* <vault>/.config/obsidian-lint/obsidian-lint.toml --json <vault>` with
\* <sub> = fix when the vault's auto_fix is true, lint when false or absent.
C6_FixOnlyWithAutoFix ==
    \A i \in DOMAIN calls :
        IsRun(calls[i])
        => LET vc == Cfg.vaults[calls[i].vault]
               auto == "auto_fix" \in DOMAIN vc /\ vc["auto_fix"]
           IN calls[i].cmd =
                <<"obsidian-lint", IF auto THEN "fix" ELSE "lint", "--config",
                  vc["path"] \o <<".config", "obsidian-lint", "obsidian-lint.toml">>,
                  "--json", vc["path"]>>

\* C6 witness: one run used fix, another used lint on a vault with no
\* auto_fix key.
C6_Witness ==
    \E i, j \in DOMAIN calls :
        /\ IsRun(calls[i]) /\ calls[i].cmd[2] = "fix"
        /\ IsRun(calls[j]) /\ calls[j].cmd[2] = "lint"
        /\ "auto_fix" \notin DOMAIN Cfg.vaults[calls[j].vault]

BackupDue(name) ==
    LET vc == Cfg.vaults[name]
    IN "backup" \in DOMAIN vc /\ vc["backup"] /\ Cfg.sync_settings.create_backups

\* C7: a linter invocation is immediately preceded by a completed backup of
\* the same vault exactly when the vault's backup flag and create_backups
\* are both true; backups are made for no other vault; a completed backup is
\* followed by that vault's linter run; a failed backup is the last thing
\* the command did, and the command was aborted.
C7_BackupBeforeLint ==
    \A i \in DOMAIN calls :
        /\ IsRun(calls[i])
           => (BackupDue(calls[i].vault)
               <=> /\ i > 1 /\ IsBackup(calls[i - 1]) /\ calls[i - 1].ok
                   /\ calls[i - 1].vault = calls[i].vault)
        /\ IsBackup(calls[i])
           => /\ BackupDue(calls[i].vault)
              /\ calls[i].src = Cfg.vaults[calls[i].vault]["path"]
              /\ IF calls[i].ok
                 THEN /\ i < Len(calls) /\ IsRun(calls[i + 1])
                      /\ calls[i + 1].vault = calls[i].vault
                 ELSE i = Len(calls) /\ pc \in {"raised", "exited"}

\* C7 witness: a vault was linted after its backup completed, and then the
\* backup of the next vault failed and aborted the command.
C7_Witness ==
    /\ \E i \in DOMAIN calls : IsBackup(calls[i]) /\ calls[i].ok
    /\ pc = "raised" /\ IsBackup(calls[Len(calls)]) /\ ~calls[Len(calls)].ok

\* tree of rules/<profile> as an option: <<>> when the directory is absent
TreeAt(rules, profile) == IF profile \in DOMAIN rules THEN <<rules[profile]>> ELSE <<>>

\* the master text with the vault's path and profile put in, piece by piece
Customized(text, path, profile) ==
    [i \in DOMAIN text |->
        IF text[i] = <<"vault_root", <<"path", "to", "vault">>>>
        THEN <<"vault_root", path>>
        ELSE IF text[i] = <<"active", <<"default">>>>
             THEN <<"active", <<profile>>>> ELSE text[i]]
CustomizedFile(toml, path, profile) ==
    IF Len(toml) = 1 THEN <<Customized(toml[1], path, profile)>> ELSE <<>>

SyncReturnedTrue == pc = "sync_returned" /\ syncRet = <<TRUE>>
BothEnabled == Cfg.sync_settings.sync_profiles /\ Cfg.sync_settings.sync_rules
RulesFlag(vc) == "sync_rules" \notin DOMAIN vc \/ vc["sync_rules"]

\* C8 (as claimed): after sync_configurations returns with both settings
\* enabled, every configured vault whose directory exists and whose
\* sync_rules flag is true has the customized master text as its config
\* file and a rules/<profile> tree identical to the master's.
C8_VaultMirrorsMaster ==
    (SyncReturnedTrue /\ BothEnabled)
    => \A n \in DOMAIN Cfg.vaults :
          LET vc == Cfg.vaults[n]
              v == vaultfs[vc["path"]]
          IN (v.exists /\ RulesFlag(vc))
             => /\ v.toml = CustomizedFile(master.toml, vc["path"], vc["profile"])
                /\ TreeAt(v.rules, vc["profile"]) = TreeAt(master.rules, vc["profile"])

\* the last configured vault that has this vault's directory
LastAt(n) ==
    \A k \in DOMAIN VaultOrder :
        Cfg.vaults[VaultOrder[k]]["path"] = Cfg.vaults[n]["path"]
        => \E j \in DOMAIN VaultOrder : j >= k /\ VaultOrder[j] = n

\* C8 (amended): after sync_configurations returns True, for every
\* configured vault whose directory exists the config directory exists;
\* with sync_profiles on and a master obsidian-lint.toml present, the
\* vault's config file is the master text customized for the last
\* configured vault with that directory; with sync_rules on, the vault's
\* sync_rules flag true or absent and a master rules/<profile> present, the
\* vault's rules/<profile> is identical to the master's (no stale file).
C8_VaultMirrorsExistingMaster ==
    SyncReturnedTrue
    => \A n \in DOMAIN Cfg.vaults :
          LET vc == Cfg.vaults[n]
              v == vaultfs[vc["path"]]
          IN v.exists
             => /\ v.cfgdir
                /\ (Cfg.sync_settings.sync_profiles /\ Len(master.toml) = 1 /\ LastAt(n))
                   => v.toml = CustomizedFile(master.toml, vc["path"], vc["profile"])
                /\ (/\ Cfg.sync_settings.sync_rules /\ RulesFlag(vc)
                    /\ vc["profile"] \in DOMAIN master.rules)
                   => /\ vc["profile"] \in DOMAIN v.rules
                      /\ v.rules[vc["profile"]] = master.rules[vc["profile"]]

\* C8 witness: after a sync a vault holds the master's non-empty tree for
\* its profile, and its config file names its own path and profile where
\* the master has the two placeholders.
C8_Witness ==
    /\ SyncReturnedTrue /\ BothEnabled
    /\ \E n \in DOMAIN Cfg.vaults :
          LET vc == Cfg.vaults[n]
              v == vaultfs[vc["path"]]
          IN /\ v.exists /\ RulesFlag(vc)
             /\ vc["profile"] \in DOMAIN master.rules
             /\ DOMAIN master.rules[vc["profile"]] # {}
             /\ v.rules[vc["profile"]] = master.rules[vc["profile"]]
             /\ master.toml = <<<<VaultRootPlaceholder, ActiveDefault>>>>
             /\ v.toml = <<<<<<"vault_root", vc["path"]>>, <<"active", <<vc["profile"]>>>>>>>>

ErrorLines(l) == {k \in DOMAIN l : l[k][1] = "ERROR"}

\* C9: a call of sync_configurations with the master config directory
\* missing returns False, adds exactly one ERROR line, which names the
\* missing path, and leaves every vault directory as it was.
C9_MissingMasterChangesNothing ==
    [][(pc = "sync_configurations" /\ ~master.exists)
       => /\ pc' = "sync_returned" /\ syncRet' = <<FALSE>>
          /\ vaultfs' = vaultfs
          /\ Cardinality(ErrorLines(log')) = Cardinality(ErrorLines(log)) + 1
          /\ \A k \in ErrorLines(log') \ ErrorLines(log) :
                log'[k][3] = Cfg.master_config]_vars

\* C9 witness: the sync returned False and a vault that exists still has no
\* config directory.
C9_Witness ==
    /\ pc = "sync_returned" /\ syncRet = <<FALSE>>
    /\ \E p \in VaultPaths : vaultfs[p].exists /\ ~vaultfs[p].cfgdir
    /\ \E p \in VaultPaths : vaultfs[p].toml = <<OldToml>>

\* entries of the mapping without an error key, and the items of one of
\* their lists, counted as a set of (vault, position) pairs
CleanNames(res) == {n \in DOMAIN res : "error" \notin DOMAIN res[n]}
Items(res, field) ==
    UNION {{<<n, i>> : i \in 1..Len(res[n][field])} :
              n \in {m \in CleanNames(res) : field \in DOMAIN res[m]}}

\* C10: the summary of a generated report has successful + failed =
\* total_vaults, and total_issues / total_fixes count the issuesFound /
\* fixesApplied items of exactly the entries without an error key.
C10_SummaryCounts ==
    Len(report) = 1
    => LET s == report[1].summary
           res == report[1].vaults
       IN /\ res = results
          /\ s.successful + s.failed = s.total_vaults
          /\ s.total_vaults = Cardinality(DOMAIN res)
          /\ s.successful = Cardinality(CleanNames(res))
          /\ s.total_issues = Cardinality(Items(res, "issuesFound"))
          /\ s.total_fixes = Cardinality(Items(res, "fixesApplied"))

\* C10 witness: a report over one clean entry with an issue and one error
\* entry that also carries an issue, which is not counted.
C10_Witness ==
    /\ Len(report) = 1
    /\ report[1].summary.total_issues = 1
    /\ report[1].summary.failed = 1
    /\ \A n \in DOMAIN results :
          "issuesFound" \in DOMAIN results[n] /\ Len(results[n]["issuesFound"]) = 1

====
